---- MODULE Spec2Model ----
(***************************************************************************)
(* ExitPrep backend: the Entity Store (courses, chapters, questions) and   *)
(* the handlers of its routers, the ingestion pipeline of                   *)
(* app/ai/ingestion/ingest_to_db.py that loads processed question JSON      *)
(* files into it, the token issuer/verifier and the password hashing of     *)
(* app/utils/auth.py, and the users with register, login and GET /me of     *)
(* app/routers/auth.py.                                                     *)
(*                                                                         *)
(* Strings are sequences of one-character strings, so that str.strip() is   *)
(* computed and not assumed.  JSON values are tagged records.               *)
(***************************************************************************)
EXTENDS Integers, Sequences, FiniteSets, TLC

(***************************************************************************)
(* Bounds of the model.                                                     *)
(***************************************************************************)
\* files found by main's glob (runs over a directory)
MaxFiles == 2
\* records of one file (runs over a directory)
MaxBatch == 1
\* records of the file (runs over a single file)
MaxRecs == 2
\* rows created through the HTTP API before the pipeline runs
MaxApiRows == 4
\* clock ticks in one second
Resolution == 2
\* the last tick of the clock
MaxClock == 6
\* the longest expires_delta, in ticks
MaxTtl == 3
\* ticks of the clock while the users register, log in and call GET /me
MaxWait == 3
\* ticks of the clock while the routers are called
MaxStamp == 1

(***************************************************************************)
(* JSON values, as json.load returns them.                                  *)
(***************************************************************************)
JNull == [t |-> "null"]
JNum == [t |-> "num"]
JBool(b) == [t |-> "bool", b |-> b]
JStr(s) == [t |-> "str", s |-> s]
JList(l) == [t |-> "list", l |-> l]
JDict(d) == [t |-> "dict", d |-> d]

\* {"text": text, "is_correct": flag}
Opt(text, flag) == JDict(("text" :> JStr(text)) @@ ("is_correct" :> JBool(flag)))

\* {"course_name": c, "question_text": q, "options": [...]}
Rec(c, q, opts) ==
    JDict(("course_name" :> JStr(c)) @@ ("question_text" :> JStr(q))
            @@ ("options" :> JList(opts)))

(***************************************************************************)
(* str.strip(): leading and trailing whitespace removed.                    *)
(***************************************************************************)
Whitespace == {" ", "\t", "\n"}

RECURSIVE LStrip(_)
LStrip(s) == IF s # <<>> /\ Head(s) \in Whitespace THEN LStrip(Tail(s)) ELSE s

RECURSIVE RStrip(_)
RStrip(s) ==
    IF s # <<>> /\ s[Len(s)] \in Whitespace
    THEN RStrip(SubSeq(s, 1, Len(s) - 1))
    ELSE s

Strip(s) == RStrip(LStrip(s))

(***************************************************************************)
(* _validate_question_item: the ValueError message, or "ok".                *)
(***************************************************************************)
\* variant: the type of is_correct is not looked at
OptionError_TextOnly(opt) ==
    IF opt.t # "dict" THEN "Each option must be an object/dict"
    ELSE IF "text" \notin DOMAIN opt.d \/ opt.d["text"].t # "str"
    THEN "Option missing 'text' or it is not a string"
    ELSE "ok"

OptionError(opt) ==
    IF opt.t # "dict" THEN "Each option must be an object/dict"
    ELSE IF "text" \notin DOMAIN opt.d \/ opt.d["text"].t # "str"
    THEN "Option missing 'text' or it is not a string"
    ELSE IF "is_correct" \notin DOMAIN opt.d \/ opt.d["is_correct"].t # "bool"
    THEN "Option missing 'is_correct' or it is not a boolean"
    ELSE "ok"

\* the for loop over item["options"]: the first option that raises decides
RECURSIVE OptionsError(_)
OptionsError(opts) ==
    IF opts = <<>> THEN "ok"
    ELSE IF OptionError(Head(opts)) # "ok" THEN OptionError(Head(opts))
    ELSE OptionsError(Tail(opts))

_validate_question_item(item) ==
    IF item.t # "dict" THEN "Question item is not an object/dict"
    ELSE IF "course_name" \notin DOMAIN item.d \/ item.d["course_name"].t # "str"
    THEN "Missing or invalid 'course_name'"
    ELSE IF "question_text" \notin DOMAIN item.d \/ item.d["question_text"].t # "str"
    THEN "Missing or invalid 'question_text'"
    ELSE IF "options" \notin DOMAIN item.d \/ item.d["options"].t # "list"
    THEN "Missing or invalid 'options' (must be a list)"
    ELSE OptionsError(item.d["options"].l)

(***************************************************************************)
(* The correct answer of process_file, from a validated options list.       *)
(***************************************************************************)
None == [t |-> "None"]

\* for opt in options: if opt.get("is_correct"): correct_answer = opt.get("text"); break
RECURSIVE FirstFlagged(_)
FirstFlagged(opts) ==
    IF opts = <<>> THEN None
    ELSE IF Head(opts).d["is_correct"].b THEN Head(opts).d["text"]
    ELSE FirstFlagged(Tail(opts))

\* Python truth value of `correct_answer`: None and "" are false
Truthy(v) == v # None /\ v.s # <<>>

\* correct_answer or (options[0].get("text") if options else "")
CorrectAnswer(opts) ==
    IF Truthy(FirstFlagged(opts)) THEN FirstFlagged(opts).s
    ELSE IF opts # <<>> THEN opts[1].d["text"].s
    ELSE <<>>

(***************************************************************************)
(* The Entity Store.  A row is a record; a table is a set of rows.  The     *)
(* columns are those of course_model.py, chapter_model.py and               *)
(* question_model.py that the operations below read or write.               *)
(***************************************************************************)
EmptyStore == [courses |-> {}, chapters |-> {}, questions |-> {}]

\* what a session sees: the committed rows and the rows it has flushed
Merge(a, b) ==
    [courses |-> a.courses \cup b.courses,
     chapters |-> a.chapters \cup b.chapters,
     questions |-> a.questions \cup b.questions]

RowCount(s) ==
    Cardinality(s.courses) + Cardinality(s.chapters) + Cardinality(s.questions)

\* default=uuid.uuid4: a primary key no row of the table has
NewId(rows) ==
    CHOOSE n \in 1..(Cardinality(rows) + 1) :
        /\ n \notin {r.id : r \in rows}
        /\ \A m \in 1..(n - 1) : m \in {r.id : r \in rows}

\* the attributes of a Course instance (course_model.py)
CourseAttrs == {"id", "title", "description", "created_at", "chapters"}

\* title: str = "Imported" of get_or_create_default_chapter
DefaultChapterTitle == <<"I", "m", "p", "o", "r", "t", "e", "d">>

\* QuestionDifficulty.medium
Medium == "medium"

(***************************************************************************)
(* The inputs the model draws from.                                         *)
(***************************************************************************)
sA == <<"a">>
sPadA == <<" ", "a">>
sB == <<"b">>
sC == <<"C">>
sPadC == <<"C", " ">>
sX == <<"x">>
sY == <<"y">>

\* second option flagged
OptsSecond == <<Opt(sX, FALSE), Opt(sY, TRUE)>>
\* no option flagged
OptsNone == <<Opt(sX, FALSE), Opt(sY, FALSE)>>
\* the flagged option has the empty text
OptsEmptyText == <<Opt(sX, FALSE), Opt(<<>>, TRUE)>>

RecA == Rec(sC, sA, OptsSecond)
RecPadA == Rec(sC, sPadA, OptsNone)
RecB == Rec(sPadC, sB, OptsEmptyText)

\* records that _validate_question_item rejects, one for each raise
BadItems ==
    { JStr(sA),
      JDict(("question_text" :> JStr(sA)) @@ ("options" :> JList(OptsSecond))),
      JDict(("course_name" :> JNum) @@ ("question_text" :> JStr(sA))
              @@ ("options" :> JList(OptsSecond))),
      JDict(("course_name" :> JStr(sC)) @@ ("options" :> JList(OptsSecond))),
      JDict(("course_name" :> JStr(sC)) @@ ("question_text" :> JNull)
              @@ ("options" :> JList(OptsSecond))),
      JDict(("course_name" :> JStr(sC)) @@ ("question_text" :> JStr(sA))),
      JDict(("course_name" :> JStr(sC)) @@ ("question_text" :> JStr(sA))
              @@ ("options" :> JDict(<<>>))),
      Rec(sC, sA, <<Opt(sX, TRUE), JStr(sY)>>),
      Rec(sC, sA, <<JDict("is_correct" :> JBool(TRUE))>>),
      Rec(sC, sA, <<JDict(("text" :> JNum) @@ ("is_correct" :> JBool(TRUE)))>>),
      Rec(sC, sA, <<Opt(sX, FALSE), JDict("text" :> JStr(sY))>>),
      Rec(sC, sA, <<JDict(("text" :> JStr(sX)) @@ ("is_correct" :> JStr(sY)))>>) }

\* the records of the pipeline runs: two well-formed, one malformed
Items == {RecA, RecPadA, JStr(sA)}

\* the records of the single-file runs: every malformed shape, and
\* well-formed ones with each shape of options list
FileItems ==
    BadItems \cup {RecA, RecPadA, RecB, Rec(sC, sB, OptsNone), Rec(sC, sB, <<>>)}

\* what load_json_file does with a file: raise, or return a non-list or a list
FileKinds == {"unreadable", "notlist", "list"}

\* request bodies of the HTTP API
ApiTitles == {sC}
ApiTexts == {sA, sPadA}
ApiOptions == {JDict(<<>>)}
ApiAnswers == {sX}

(***************************************************************************)
(* State.                                                                   *)
(***************************************************************************)
VARIABLES
    db,       \* the committed rows of the store
    tx,       \* the rows the open transaction of process_file has flushed
    input,    \* the files of the input directory, as far as they were read
    run,      \* "none", "first" (main is or was run once) or "again" (re-run)
    pc,       \* where main / process_file stands
    fileIdx,  \* the file main's loop is at
    recIdx,   \* idx of process_file's loop over the records
    cur,      \* the locals of the current iteration of process_file
    log,      \* the line printed last
    snap,     \* the committed rows when the current run of main started
    inserted, \* the Question rows added and flushed for the current file
    clock,    \* datetime.utcnow(), in ticks
    token,    \* the access token issued last
    issued,   \* the call of create_access_token that issued it
    result,   \* what decode_access_token did last
    users,    \* the committed rows of the users table
    http,     \* the last call of register or login and its response
    me,       \* the last call of get_current_user and its outcome
    pwd,      \* the last password hashed and the last verification against it
    reply,    \* the last response of a handler of the store's routers
    gem,      \* the call of ask_gemini in progress or made last
    peer      \* a second ingestion run that works on the same store

authVars == <<clock, token, issued, result>>

apiVars == <<users, http, me, pwd, reply>>

sideVars == <<gem, peer>>

storeVars == <<db, tx, input, run, pc, fileIdx, recIdx, cur, log, snap, inserted>>

vars ==
    <<db, tx, input, run, pc, fileIdx, recIdx, cur, log, snap, inserted,
      clock, token, issued, result, users, http, me, pwd, reply, gem, peer>>

NoToken == [payload |-> <<>>, key |-> "", alg |-> ""]

NotIssued == [at |-> 0, expires_delta |-> 0, data |-> <<>>]

NoResult == [at |-> 0, ok |-> FALSE, err |-> "", payload |-> <<>>, call |-> NotIssued]

NoHttp ==
    [op |-> "", email |-> "", username |-> "", password |-> <<>>, before |-> {},
     status |-> 0, detail |-> "", token |-> NoToken, user |-> ""]

NoMe ==
    [token |-> NoToken, before |-> {}, status |-> 0, detail |-> "", headers |-> <<>>,
     user |-> "", decoded |-> [ok |-> FALSE, err |-> "", payload |-> <<>>]]

NoPwd == [plain |-> <<>>, hash |-> <<>>, tried |-> <<>>, ok |-> FALSE, done |-> 0]

NoReply == [op |-> "", id |-> 0, status |-> 0, detail |-> "", body |-> <<>>]

NoGem ==
    [pc |-> "idle", methods |-> {}, attempt |-> 0, calls |-> 0, slept |-> <<>>,
     failed |-> FALSE, last_exc |-> <<>>, fatal |-> 0, idx |-> 0]

NoPeer ==
    [pc |-> "idle", tx |-> [courses |-> {}, chapters |-> {}, questions |-> {}],
     course_name |-> <<>>, question_text |-> <<>>, options |-> <<>>,
     course |-> 0, chapter |-> 0]

NoCur ==
    [course_name |-> <<>>, question_text |-> <<>>, options |-> <<>>,
     course |-> 0, chapter |-> 0]

Said(msg) == [msg |-> msg, file |-> fileIdx, idx |-> recIdx]

Silent == [msg |-> "", file |-> 0, idx |-> 0]

\* the rows the session of process_file reads
View == Merge(db, tx)

Init ==
    /\ db = EmptyStore
    /\ tx = EmptyStore
    /\ input = <<>>
    /\ run = "none"
    /\ pc = "idle"
    /\ fileIdx = 0
    /\ recIdx = 0
    /\ cur = NoCur
    /\ log = Silent
    /\ snap = EmptyStore
    /\ inserted = {}
    /\ clock = 0
    /\ token = NoToken
    /\ issued = NotIssued
    /\ result = NoResult
    /\ users = {}
    /\ http = NoHttp
    /\ me = NoMe
    /\ pwd = NoPwd
    /\ reply = NoReply
    /\ gem = NoGem
    /\ peer = NoPeer

(***************************************************************************)
(* The HTTP API that fills the store (course_router.py, chapter_router.py,  *)
(* question_router.py), for a request whose bearer token resolves to a      *)
(* user.  The requests are made before the pipeline is started.             *)
(***************************************************************************)
\* a response without rows: an HTTPException, or 204 No Content
Replied(op, id, status, detail) ==
    [op |-> op, id |-> id, status |-> status, detail |-> detail, body |-> <<>>]

\* a response that carries rows (model_validate of each)
Returned(op, id, status, rows) ==
    [op |-> op, id |-> id, status |-> status, detail |-> "", body |-> rows]

Row(rows, id) == CHOOSE r \in rows : r.id = id

Has(rows, id) == \E r \in rows : r.id = id

ApiEnabled == pc = "idle" /\ run = "none" /\ RowCount(db) < MaxApiRows

pipelineVars == <<tx, input, run, pc, fileIdx, recIdx, cur, log, snap, inserted>>

create_course ==
    /\ ApiEnabled
    /\ \E title \in ApiTitles :
          db' = [db EXCEPT !.courses =
                    @ \cup {[id |-> NewId(db.courses), title |-> title,
                            created_at |-> clock]}]
    /\ UNCHANGED pipelineVars
    /\ UNCHANGED authVars
    /\ UNCHANGED sideVars
    /\ UNCHANGED apiVars

\* variant: the course of the body is not looked up
create_chapter_response_Unchecked(store, course_id) ==
    Replied("create_chapter", 0, 201, "")

\* what create_chapter answers for a body with this course_id: the
\* HTTPException of the existence check, or 201
create_chapter_response(store, course_id) ==
    IF Has(store.courses, course_id)
    THEN Replied("create_chapter", 0, 201, "")
    ELSE Replied("create_chapter", 0, 404, "Course not found")

create_chapter_in(course_id) ==
    /\ ApiEnabled
    /\ IF create_chapter_response(db, course_id).status = 201
       THEN db' = [db EXCEPT !.chapters =
                      @ \cup {[id |-> NewId(db.chapters), course_id |-> course_id,
                               title |-> DefaultChapterTitle, order_index |-> 0,
                               created_at |-> clock]}]
       ELSE UNCHANGED db
    /\ UNCHANGED pipelineVars
    /\ UNCHANGED authVars
    /\ UNCHANGED sideVars
    /\ UNCHANGED apiVars

create_chapter == \E course_id \in 1..MaxApiRows : create_chapter_in(course_id)

\* what create_question answers for a body with this chapter_id
create_question_response(store, chapter_id) ==
    IF Has(store.chapters, chapter_id)
    THEN Replied("create_question", 0, 201, "")
    ELSE Replied("create_question", 0, 404, "Chapter not found")

create_question_in(chapter_id, text, options, answer) ==
    /\ ApiEnabled
    /\ IF create_question_response(db, chapter_id).status = 201
       THEN db' = [db EXCEPT !.questions =
                      @ \cup {[id |-> NewId(db.questions), chapter_id |-> chapter_id,
                               question_text |-> text, options |-> options,
                               correct_answer |-> answer, difficulty |-> Medium,
                               created_at |-> clock]}]
       ELSE UNCHANGED db
    /\ UNCHANGED pipelineVars
    /\ UNCHANGED authVars
    /\ UNCHANGED sideVars
    /\ UNCHANGED apiVars

create_question ==
    \E chapter_id \in 1..MaxApiRows, text \in ApiTexts,
       options \in ApiOptions, answer \in ApiAnswers :
        create_question_in(chapter_id, text, options, answer)

(***************************************************************************)
(* The ingestion pipeline: main and process_file of ingest_to_db.py.        *)
(* The content of the input directory is drawn while the first run reads    *)
(* it and is recorded in `input`; a later run reads the same content.       *)
(***************************************************************************)
\* `async with session.begin()` left normally: the flushed rows are committed
Committed(d, t) == Merge(d, t)

\* variant: the exception is swallowed inside the transaction block, which
\* then commits
RolledBack_Commits(d, t) == Merge(d, t)

\* `async with session.begin()` left by an exception: the transaction is
\* rolled back and the committed rows stay as they were
RolledBack(d, t) == d

\* an exception leaves process_file; main's except prints it and the loop
\* goes to the next file
Raise(exc) ==
    /\ db' = RolledBack(db, tx)
    /\ tx' = EmptyStore
    /\ log' = Said(exc)
    /\ pc' = "main"
    /\ fileIdx' = fileIdx + 1
    /\ recIdx' = 0
    /\ cur' = NoCur

\* asyncio.run(main()), up to the loop over the sorted files
Started ==
    /\ pc' = "main"
    /\ fileIdx' = 1
    /\ log' = Silent
    /\ snap' = db
    /\ UNCHANGED <<db, tx, input, recIdx, cur, inserted>>

\* the pipeline is run
main_start ==
    /\ pc = "idle"
    /\ run = "none"
    /\ run' = "first"
    /\ Started
    /\ UNCHANGED authVars
    /\ UNCHANGED sideVars
    /\ UNCHANGED apiVars

\* the pipeline is run once more on the same input directory
main_again ==
    /\ pc = "idle"
    /\ run = "first"
    /\ run' = "again"
    /\ Started
    /\ UNCHANGED authVars
    /\ UNCHANGED sideVars
    /\ UNCHANGED apiVars

\* the loop over the files is exhausted (or there was no file at all)
main_end ==
    /\ pc = "main"
    /\ fileIdx = Len(input) + 1
    /\ pc' = "idle"
    /\ log' = Said(IF input = <<>> THEN "No JSON files found" ELSE "Ingestion complete")
    /\ UNCHANGED <<db, tx, input, run, fileIdx, recIdx, cur, snap, inserted>>
    /\ UNCHANGED authVars
    /\ UNCHANGED sideVars
    /\ UNCHANGED apiVars

\* variant: the top-level value is not checked to be a list
IsList_Unchecked(kind) == kind # "unreadable"

\* isinstance(data, list), for the data load_json_file returned
IsList(kind) == kind = "list"

\* process_file up to the opening of the session and its transaction
process_file(maxFiles) ==
    /\ pc = "main"
    /\ IF fileIdx <= Len(input)
       THEN UNCHANGED input
       ELSE /\ run = "first"
            /\ Len(input) < maxFiles
            /\ \E kind \in FileKinds :
                  input' = Append(input, [kind |-> kind, items |-> <<>>])
    /\ inserted' = {}
    /\ IF IsList(input'[fileIdx].kind)
       THEN /\ pc' = "rec"
            /\ recIdx' = 1
            /\ log' = Said("Processing file")
            /\ UNCHANGED fileIdx
       ELSE /\ pc' = "main"
            /\ fileIdx' = fileIdx + 1
            /\ log' = Said(IF input'[fileIdx].kind = "unreadable"
                           THEN "Failed to read JSON"
                           ELSE "Skipping: top-level JSON must be a list of questions")
            /\ UNCHANGED recIdx
    /\ UNCHANGED <<db, tx, run, cur, snap>>
    /\ UNCHANGED authVars
    /\ UNCHANGED sideVars
    /\ UNCHANGED apiVars

\* the records of the file are exhausted: the transaction commits
end_of_file ==
    /\ pc = "rec"
    /\ recIdx = Len(input[fileIdx].items) + 1
    /\ db' = Committed(db, tx)
    /\ tx' = EmptyStore
    /\ pc' = "main"
    /\ fileIdx' = fileIdx + 1
    /\ recIdx' = 0
    /\ log' = Said("Committed")
    /\ UNCHANGED <<input, run, cur, snap, inserted>>
    /\ UNCHANGED authVars
    /\ UNCHANGED sideVars
    /\ UNCHANGED apiVars

\* variant: the lookup compares the wrong column
Existing_WrongColumn(question_text) ==
    {q \in View.questions : q.correct_answer = question_text}

\* the SELECT of the dedup lookup: the Questions with this question_text
Existing(question_text) == {q \in View.questions : q.question_text = question_text}

\* one record: validation, then the dedup lookup (scalar_one_or_none)
Handle(item) ==
    IF _validate_question_item(item) # "ok"
    THEN /\ log' = Said("Skipping item: validation error")
         /\ recIdx' = recIdx + 1
         /\ UNCHANGED <<db, tx, pc, fileIdx, cur>>
    ELSE LET course_name == Strip(item.d["course_name"].s)
             question_text == Strip(item.d["question_text"].s)
             options == item.d["options"].l
         IN  IF Cardinality(Existing(question_text)) > 1
             THEN Raise("Error processing: MultipleResultsFound")
             ELSE IF Cardinality(Existing(question_text)) = 1
             THEN /\ log' = Said("Skipped existing question")
                  /\ recIdx' = recIdx + 1
                  /\ UNCHANGED <<db, tx, pc, fileIdx, cur>>
             ELSE /\ pc' = "course"
                  /\ cur' = [NoCur EXCEPT !.course_name = course_name,
                                          !.question_text = question_text,
                                          !.options = options]
                  /\ UNCHANGED <<db, tx, fileIdx, recIdx, log>>

next_record(U, maxRecs) ==
    /\ pc = "rec"
    /\ IF recIdx <= Len(input[fileIdx].items)
       THEN /\ UNCHANGED input
            /\ Handle(input[fileIdx].items[recIdx])
       ELSE /\ run = "first"
            /\ Len(input[fileIdx].items) < maxRecs
            /\ \E item \in U :
                  /\ input' = [input EXCEPT ![fileIdx].items = Append(@, item)]
                  /\ Handle(item)
    /\ UNCHANGED <<run, snap, inserted>>
    /\ UNCHANGED authVars
    /\ UNCHANGED sideVars
    /\ UNCHANGED apiVars

\* SELECT Course WHERE Course.title == course_name
CoursesTitled(course_name) == {c \in View.courses : c.title = course_name}

\* get_or_create_course(session, course_name), called by process_file
get_or_create_course ==
    /\ pc = "course"
    /\ IF Cardinality(CoursesTitled(cur.course_name)) > 1
       THEN /\ Raise("Error processing: MultipleResultsFound")
            /\ UNCHANGED <<input, run, snap, inserted>>
       ELSE IF Cardinality(CoursesTitled(cur.course_name)) = 1
       THEN /\ cur' = [cur EXCEPT !.course =
                          (CHOOSE c \in CoursesTitled(cur.course_name) : TRUE).id]
            /\ pc' = "chapter"
            /\ UNCHANGED <<db, tx, input, run, fileIdx, recIdx, log, snap, inserted>>
       ELSE /\ tx' = [tx EXCEPT !.courses =
                         @ \cup {[id |-> NewId(View.courses \cup peer.tx.courses),
                                  title |-> cur.course_name, created_at |-> clock]}]
            /\ cur' = [cur EXCEPT !.course = NewId(View.courses \cup peer.tx.courses)]
            /\ pc' = "chapter"
            /\ UNCHANGED <<db, input, run, fileIdx, recIdx, log, snap, inserted>>
    /\ UNCHANGED authVars
    /\ UNCHANGED sideVars
    /\ UNCHANGED apiVars

\* SELECT Chapter WHERE course_id == course.id AND title == title
ChaptersOf(course_id, title) ==
    {ch \in View.chapters : ch.course_id = course_id /\ ch.title = title}

\* get_or_create_default_chapter(session, course), called by process_file
get_or_create_default_chapter ==
    /\ pc = "chapter"
    /\ IF Cardinality(ChaptersOf(cur.course, DefaultChapterTitle)) > 1
       THEN /\ Raise("Error processing: MultipleResultsFound")
            /\ UNCHANGED <<input, run, snap, inserted>>
       ELSE IF Cardinality(ChaptersOf(cur.course, DefaultChapterTitle)) = 1
       THEN /\ cur' = [cur EXCEPT !.chapter =
                          (CHOOSE ch \in ChaptersOf(cur.course, DefaultChapterTitle) : TRUE).id]
            /\ pc' = "insert"
            /\ UNCHANGED <<db, tx, input, run, fileIdx, recIdx, log, snap, inserted>>
       ELSE /\ tx' = [tx EXCEPT !.chapters =
                         @ \cup {[id |-> NewId(View.chapters \cup peer.tx.chapters),
                                  course_id |-> cur.course,
                                  title |-> DefaultChapterTitle, order_index |-> 0,
                                  created_at |-> clock]}]
            /\ cur' = [cur EXCEPT !.chapter = NewId(View.chapters \cup peer.tx.chapters)]
            /\ pc' = "insert"
            /\ UNCHANGED <<db, input, run, fileIdx, recIdx, log, snap, inserted>>
    /\ UNCHANGED authVars
    /\ UNCHANGED sideVars
    /\ UNCHANGED apiVars

\* the Question row process_file builds for the current record
NewQuestion ==
    [id |-> NewId(View.questions \cup peer.tx.questions), chapter_id |-> cur.chapter,
     question_text |-> cur.question_text, options |-> JList(cur.options),
     correct_answer |-> CorrectAnswer(cur.options), difficulty |-> Medium,
     created_at |-> clock]

\* Question(...), session.add(question), await session.flush()
insert_question ==
    /\ pc = "insert"
    /\ tx' = [tx EXCEPT !.questions = @ \cup {NewQuestion}]
    /\ inserted' = inserted \cup {NewQuestion}
    /\ pc' = "log"
    /\ UNCHANGED <<db, input, run, fileIdx, recIdx, cur, log, snap>>
    /\ UNCHANGED authVars
    /\ UNCHANGED sideVars
    /\ UNCHANGED apiVars

\* print(f"  Inserted question: ... (course: {course.name}, chapter: {chapter.title})")
\* reading an attribute a Course instance does not have raises AttributeError
print_inserted ==
    /\ pc = "log"
    /\ IF "name" \in CourseAttrs
       THEN /\ log' = Said("Inserted question")
            /\ recIdx' = recIdx + 1
            /\ pc' = "rec"
            /\ cur' = NoCur
            /\ UNCHANGED <<db, tx, fileIdx>>
       ELSE Raise("Error processing: AttributeError")
    /\ UNCHANGED <<input, run, snap, inserted>>
    /\ UNCHANGED authVars
    /\ UNCHANGED sideVars
    /\ UNCHANGED apiVars

\* await session.flush() of the Question row fails (PersistenceError): the
\* exception leaves the transaction block like any other
flush_fails ==
    /\ pc = "insert"
    /\ Raise("Error processing: DBAPIError")
    /\ UNCHANGED <<input, run, snap, inserted>>
    /\ UNCHANGED authVars
    /\ UNCHANGED sideVars
    /\ UNCHANGED apiVars

(***************************************************************************)
(* A second run of the pipeline, started while the first is at work: its    *)
(* process_file has its own session and transaction on the same store and   *)
(* reads the committed rows and the rows it has flushed itself.  Its file   *)
(* holds one record.  The primary keys are uuid4 values, so a new id is one *)
(* that no row of either session has.                                       *)
(***************************************************************************)
PeerView == Merge(db, peer.tx)

\* the records of the second run: a well-formed one and a malformed one
PeerItems == {Rec(sC, sB, OptsNone), JStr(sA)}

\* an exception leaves the second run's process_file
PeerRaise ==
    /\ db' = RolledBack(db, peer.tx)
    /\ peer' = [peer EXCEPT !.tx = EmptyStore, !.pc = "done"]

\* process_file of the second run, up to the opening of its transaction
peer_process_file ==
    /\ peer.pc = "idle"
    /\ peer' = [peer EXCEPT !.pc = "rec"]
    /\ UNCHANGED <<gem>>
    /\ UNCHANGED storeVars
    /\ UNCHANGED authVars
    /\ UNCHANGED apiVars

\* the record of the second run: validation, then the dedup lookup
peer_next_record ==
    /\ peer.pc = "rec"
    /\ \E item \in PeerItems :
          IF _validate_question_item(item) # "ok"
          THEN peer' = [peer EXCEPT !.pc = "end"] /\ UNCHANGED db
          ELSE LET question_text == Strip(item.d["question_text"].s)
                   existing == {q \in PeerView.questions :
                                   q.question_text = question_text}
               IN  IF Cardinality(existing) > 1 THEN PeerRaise
                   ELSE IF Cardinality(existing) = 1
                   THEN peer' = [peer EXCEPT !.pc = "end"] /\ UNCHANGED db
                   ELSE /\ peer' = [peer EXCEPT
                               !.pc = "course",
                               !.course_name = Strip(item.d["course_name"].s),
                               !.question_text = question_text,
                               !.options = item.d["options"].l]
                        /\ UNCHANGED db
    /\ UNCHANGED <<gem>>
    /\ UNCHANGED pipelineVars
    /\ UNCHANGED authVars
    /\ UNCHANGED apiVars

\* get_or_create_course(session, course_name) in the second run
peer_get_or_create_course ==
    /\ peer.pc = "course"
    /\ LET found == {c \in PeerView.courses : c.title = peer.course_name}
           id == NewId(PeerView.courses \cup tx.courses)
       IN  IF Cardinality(found) > 1 THEN PeerRaise
           ELSE IF Cardinality(found) = 1
           THEN /\ peer' = [peer EXCEPT !.course = (CHOOSE c \in found : TRUE).id,
                                        !.pc = "chapter"]
                /\ UNCHANGED db
           ELSE /\ peer' = [peer EXCEPT
                       !.tx.courses = @ \cup {[id |-> id, title |-> peer.course_name,
                                               created_at |-> clock]},
                       !.course = id,
                       !.pc = "chapter"]
                /\ UNCHANGED db
    /\ UNCHANGED <<gem>>
    /\ UNCHANGED pipelineVars
    /\ UNCHANGED authVars
    /\ UNCHANGED apiVars

\* get_or_create_default_chapter(session, course) in the second run
peer_get_or_create_default_chapter ==
    /\ peer.pc = "chapter"
    /\ LET found == {ch \in PeerView.chapters :
                        ch.course_id = peer.course /\ ch.title = DefaultChapterTitle}
           id == NewId(PeerView.chapters \cup tx.chapters)
       IN  IF Cardinality(found) > 1 THEN PeerRaise
           ELSE IF Cardinality(found) = 1
           THEN /\ peer' = [peer EXCEPT !.chapter = (CHOOSE ch \in found : TRUE).id,
                                        !.pc = "insert"]
                /\ UNCHANGED db
           ELSE /\ peer' = [peer EXCEPT
                       !.tx.chapters = @ \cup {[id |-> id, course_id |-> peer.course,
                                                title |-> DefaultChapterTitle,
                                                order_index |-> 0,
                                                created_at |-> clock]},
                       !.chapter = id,
                       !.pc = "insert"]
                /\ UNCHANGED db
    /\ UNCHANGED <<gem>>
    /\ UNCHANGED pipelineVars
    /\ UNCHANGED authVars
    /\ UNCHANGED apiVars

\* Question(...), session.add(question), await session.flush() in the second run
peer_insert_question ==
    /\ peer.pc = "insert"
    /\ peer' = [peer EXCEPT
          !.tx.questions = @ \cup
              {[id |-> NewId(PeerView.questions \cup tx.questions),
                chapter_id |-> peer.chapter,
                question_text |-> peer.question_text,
                options |-> JList(peer.options),
                correct_answer |-> CorrectAnswer(peer.options),
                difficulty |-> Medium, created_at |-> clock]},
          !.pc = "log"]
    /\ UNCHANGED <<gem>>
    /\ UNCHANGED storeVars
    /\ UNCHANGED authVars
    /\ UNCHANGED apiVars

\* the print after the insert, in the second run
peer_print_inserted ==
    /\ peer.pc = "log"
    /\ IF "name" \in CourseAttrs
       THEN peer' = [peer EXCEPT !.pc = "end"] /\ UNCHANGED db
       ELSE PeerRaise
    /\ UNCHANGED <<gem>>
    /\ UNCHANGED pipelineVars
    /\ UNCHANGED authVars
    /\ UNCHANGED apiVars

\* the record of the second run is done with: its transaction commits
peer_end_of_file ==
    /\ peer.pc = "end"
    /\ db' = Committed(db, peer.tx)
    /\ peer' = [peer EXCEPT !.tx = EmptyStore, !.pc = "done"]
    /\ UNCHANGED <<gem>>
    /\ UNCHANGED pipelineVars
    /\ UNCHANGED authVars
    /\ UNCHANGED apiVars

(***************************************************************************)
(* Spec: the store is filled through the API, then main is run over a       *)
(* directory of files, and run again over the same directory.               *)
(***************************************************************************)
Next ==
    \/ create_course
    \/ create_chapter
    \/ create_question
    \/ main_start
    \/ main_again
    \/ process_file(MaxFiles)
    \/ next_record(Items, MaxBatch)
    \/ get_or_create_course
    \/ get_or_create_default_chapter
    \/ insert_question
    \/ print_inserted
    \/ end_of_file
    \/ main_end

Spec == Init /\ [][Next]_vars

(***************************************************************************)
(* SpecFile: the store is filled through the API, then main is run once     *)
(* over a directory that holds a single file, whose records are drawn from  *)
(* every shape _validate_question_item tells apart.                         *)
(***************************************************************************)
NextFile ==
    \/ create_course
    \/ create_chapter
    \/ create_question
    \/ main_start
    \/ process_file(1)
    \/ next_record(FileItems, MaxRecs)
    \/ get_or_create_course
    \/ get_or_create_default_chapter
    \/ insert_question
    \/ print_inserted
    \/ flush_fails
    \/ end_of_file
    \/ main_end

SpecFile == Init /\ [][NextFile]_vars

(***************************************************************************)
(* SpecRace: two runs of the pipeline at the same time on an empty store,   *)
(* each over a single file.  Every step of a run that has started is taken  *)
(* in the end: the runs are two processes that nothing holds back.          *)
(***************************************************************************)
NextRace ==
    \/ main_start
    \/ process_file(1)
    \/ next_record(Items, MaxBatch)
    \/ get_or_create_course
    \/ get_or_create_default_chapter
    \/ insert_question
    \/ print_inserted
    \/ end_of_file
    \/ main_end
    \/ peer_process_file
    \/ peer_next_record
    \/ peer_get_or_create_course
    \/ peer_get_or_create_default_chapter
    \/ peer_insert_question
    \/ peer_print_inserted
    \/ peer_end_of_file

SpecRace == Init /\ [][NextRace]_vars

FairSpecRace ==
    /\ SpecRace
    /\ WF_vars(next_record(Items, MaxBatch))
    /\ WF_vars(get_or_create_course)
    /\ WF_vars(get_or_create_default_chapter)
    /\ WF_vars(insert_question)
    /\ WF_vars(print_inserted)
    /\ WF_vars(end_of_file)
    /\ WF_vars(main_end)
    /\ WF_vars(peer_next_record)
    /\ WF_vars(peer_get_or_create_course)
    /\ WF_vars(peer_get_or_create_default_chapter)
    /\ WF_vars(peer_insert_question)
    /\ WF_vars(peer_print_inserted)
    /\ WF_vars(peer_end_of_file)

(***************************************************************************)
(* The other handlers of the store's routers: read, update and delete, for  *)
(* a request whose bearer token resolves to a user.  A field a request      *)
(* leaves out (None) is absent from the record of its body.                 *)
(***************************************************************************)
ApiOpen == pc = "idle" /\ run = "none"

\* path parameters and ids of request bodies
ApiIds == 1..MaxApiRows

\* bodies of PUT /api/courses/{course_id}
CourseUpdates == {<<>>, ("title" :> sC), ("title" :> sB)}

\* bodies of PUT /api/chapters/{chapter_id}
ChapterUpdates == {<<>>} \cup {("course_id" :> id) : id \in ApiIds}

\* bodies of PUT /api/questions/{question_id}
QuestionUpdates ==
    {<<>>, ("question_text" :> sA)}
    \cup {("chapter_id" :> id) : id \in ApiIds}
    \cup {("chapter_id" :> id) @@ ("question_text" :> sA) : id \in ApiIds}

\* `if data.field is not None: row.field = data.field`; a body holds the
\* fields that were supplied with a value
Assign(row, data, field) ==
    IF field \in DOMAIN data THEN [row EXCEPT ![field] = data[field]] ELSE row

\* variant: the delete is awaited and removes the row only
Delete_RowOnly(store, table, id) ==
    [store EXCEPT ![table] = {r \in @ : r.id # id}]

\* db.delete(instance) without await: the coroutine is created and never
\* run, so the session has nothing to delete when it commits
Delete(store, table, id) == store

\* response of GET /api/questions/{question_id}
get_question_by_id_response(store, question_id) ==
    IF Has(store.questions, question_id)
    THEN Returned("get_question_by_id", question_id, 200,
                  <<Row(store.questions, question_id)>>)
    ELSE Replied("get_question_by_id", question_id, 404, "Question not found")

get_question_by_id ==
    /\ ApiOpen
    /\ \E question_id \in ApiIds :
          reply' = get_question_by_id_response(db, question_id)
    /\ UNCHANGED <<db, users, http, me, pwd>>
    /\ UNCHANGED pipelineVars
    /\ UNCHANGED authVars
    /\ UNCHANGED sideVars

\* the course after the assignments of update_course
CourseAfter(course, course_data) == Assign(course, course_data, "title")

update_course_by(course_id, course_data) ==
    /\ ApiOpen
    /\ IF ~Has(db.courses, course_id)
       THEN /\ reply' = Replied("update_course", course_id, 404, "Course not found")
            /\ UNCHANGED db
       ELSE LET course == Row(db.courses, course_id)
                updated == CourseAfter(course, course_data)
            IN  /\ db' = [db EXCEPT !.courses = (@ \ {course}) \cup {updated}]
                /\ reply' = Returned("update_course", course_id, 200, <<updated>>)
    /\ UNCHANGED <<users, http, me, pwd>>
    /\ UNCHANGED pipelineVars
    /\ UNCHANGED authVars
    /\ UNCHANGED sideVars

update_course ==
    \E course_id \in ApiIds, course_data \in CourseUpdates :
        update_course_by(course_id, course_data)

delete_course(course_id) ==
    /\ ApiOpen
    /\ IF ~Has(db.courses, course_id)
       THEN /\ reply' = Replied("delete_course", course_id, 404, "Course not found")
            /\ UNCHANGED db
       ELSE /\ db' = Delete(db, "courses", course_id)
            /\ reply' = Replied("delete_course", course_id, 204, "")
    /\ UNCHANGED <<users, http, me, pwd>>
    /\ UNCHANGED pipelineVars
    /\ UNCHANGED authVars
    /\ UNCHANGED sideVars

\* variant: an order_index that was not supplied falls back to the default
\* of the create body
ChapterAfter_Defaults(chapter, chapter_data) ==
    [Assign(Assign(chapter, chapter_data, "course_id"), chapter_data, "title")
        EXCEPT !.order_index = IF "order_index" \in DOMAIN chapter_data
                               THEN chapter_data["order_index"] ELSE 0]

\* the chapter after the assignments of update_chapter
ChapterAfter(chapter, chapter_data) ==
    Assign(Assign(Assign(chapter, chapter_data, "course_id"),
                  chapter_data, "title"),
           chapter_data, "order_index")

update_chapter_by(chapter_id, chapter_data) ==
    /\ ApiOpen
    /\ IF ~Has(db.chapters, chapter_id)
       THEN /\ reply' = Replied("update_chapter", chapter_id, 404, "Chapter not found")
            /\ UNCHANGED db
       ELSE IF "course_id" \in DOMAIN chapter_data
               /\ ~Has(db.courses, chapter_data["course_id"])
       THEN /\ reply' = Replied("update_chapter", chapter_id, 404, "Course not found")
            /\ UNCHANGED db
       ELSE LET chapter == Row(db.chapters, chapter_id)
                updated == ChapterAfter(chapter, chapter_data)
            IN  /\ db' = [db EXCEPT !.chapters = (@ \ {chapter}) \cup {updated}]
                /\ reply' = Returned("update_chapter", chapter_id, 200, <<updated>>)
    /\ UNCHANGED <<users, http, me, pwd>>
    /\ UNCHANGED pipelineVars
    /\ UNCHANGED authVars
    /\ UNCHANGED sideVars

update_chapter ==
    \E chapter_id \in ApiIds, chapter_data \in ChapterUpdates :
        update_chapter_by(chapter_id, chapter_data)

delete_chapter ==
    /\ ApiOpen
    /\ \E chapter_id \in ApiIds :
          IF ~Has(db.chapters, chapter_id)
          THEN /\ reply' = Replied("delete_chapter", chapter_id, 404, "Chapter not found")
               /\ UNCHANGED db
          ELSE /\ db' = Delete(db, "chapters", chapter_id)
               /\ reply' = Replied("delete_chapter", chapter_id, 204, "")
    /\ UNCHANGED <<users, http, me, pwd>>
    /\ UNCHANGED pipelineVars
    /\ UNCHANGED authVars
    /\ UNCHANGED sideVars

\* the question after the assignments of update_question
QuestionAfter(question, question_data) ==
    Assign(Assign(Assign(Assign(Assign(question, question_data, "chapter_id"),
                                question_data, "question_text"),
                         question_data, "options"),
                  question_data, "correct_answer"),
           question_data, "difficulty")

update_question_by(question_id, question_data) ==
    /\ ApiOpen
    /\ IF ~Has(db.questions, question_id)
       THEN /\ reply' = Replied("update_question", question_id, 404, "Question not found")
            /\ UNCHANGED db
       ELSE IF "chapter_id" \in DOMAIN question_data
               /\ ~Has(db.chapters, question_data["chapter_id"])
       THEN /\ reply' = Replied("update_question", question_id, 404, "Chapter not found")
            /\ UNCHANGED db
       ELSE LET question == Row(db.questions, question_id)
                updated == QuestionAfter(question, question_data)
            IN  /\ db' = [db EXCEPT !.questions = (@ \ {question}) \cup {updated}]
                /\ reply' = Returned("update_question", question_id, 200, <<updated>>)
    /\ UNCHANGED <<users, http, me, pwd>>
    /\ UNCHANGED pipelineVars
    /\ UNCHANGED authVars
    /\ UNCHANGED sideVars

update_question ==
    \E question_id \in ApiIds, question_data \in QuestionUpdates :
        update_question_by(question_id, question_data)

delete_question ==
    /\ ApiOpen
    /\ \E question_id \in ApiIds :
          IF ~Has(db.questions, question_id)
          THEN /\ reply' = Replied("delete_question", question_id, 404, "Question not found")
               /\ UNCHANGED db
          ELSE /\ db' = Delete(db, "questions", question_id)
               /\ reply' = Replied("delete_question", question_id, 204, "")
    /\ UNCHANGED <<users, http, me, pwd>>
    /\ UNCHANGED pipelineVars
    /\ UNCHANGED authVars
    /\ UNCHANGED sideVars

\* the routers and one ingestion run over one file of one record
NextStore ==
    \/ create_course
    \/ create_chapter
    \/ create_question
    \/ get_question_by_id
    \/ update_course
    \/ \E course_id \in ApiIds : delete_course(course_id)
    \/ update_chapter
    \/ delete_chapter
    \/ update_question
    \/ delete_question
    \/ main_start
    \/ process_file(1)
    \/ next_record(Items, MaxBatch)
    \/ get_or_create_course
    \/ get_or_create_default_chapter
    \/ insert_question
    \/ print_inserted
    \/ end_of_file
    \/ main_end

SpecStore == Init /\ [][NextStore]_vars

(***************************************************************************)
(* The token issuer/verifier of app/utils/auth.py.  Time is counted in      *)
(* ticks, Resolution ticks to the second; jose writes and compares the exp  *)
(* claim in whole seconds.                                                  *)
(***************************************************************************)
\* settings (utils/config.py)
ACCESS_TOKEN_EXPIRE_MINUTES == 30

JWT_SECRET_KEY == "server secret"

JWT_ALGORITHM == "HS256"

\* the claims the routers put in a token
Subs == {"id1", "id2"}
Emails == {"alice@example.com"}

\* timegm(dt.utctimetuple()): the whole seconds of a time
Seconds(ticks) == ticks \div Resolution

\* expires_delta or timedelta(minutes=settings.ACCESS_TOKEN_EXPIRE_MINUTES);
\* None and timedelta(0) are false and are written 0
Delta(expires_delta) ==
    IF expires_delta # 0 THEN expires_delta
    ELSE ACCESS_TOKEN_EXPIRE_MINUTES * 60 * Resolution

\* create_access_token(data, expires_delta) at time now: jwt.encode turns
\* the datetime under "exp" into whole seconds and signs the claims
create_access_token(data, expires_delta, now) ==
    [payload |-> ("exp" :> Seconds(now + Delta(expires_delta))) @@ data,
     key |-> JWT_SECRET_KEY,
     alg |-> JWT_ALGORITHM]

\* variant: a token whose exp is the current second is refused already
Expired_AtExp(exp, now) == exp <= Seconds(now)

\* jose's check of the exp claim: if exp < now: raise ExpiredSignatureError
Expired(exp, now) == exp < Seconds(now)

\* variant: the signature is not verified
decode_access_token_Unverified(tok, now) ==
    IF "exp" \in DOMAIN tok.payload /\ Expired(tok.payload["exp"], now)
    THEN [ok |-> FALSE, err |-> "ExpiredSignatureError", payload |-> <<>>]
    ELSE [ok |-> TRUE, err |-> "", payload |-> tok.payload]

\* decode_access_token(token) at time now
decode_access_token(tok, now) ==
    IF tok.key # JWT_SECRET_KEY \/ tok.alg # JWT_ALGORITHM
    THEN [ok |-> FALSE, err |-> "JWTError", payload |-> <<>>]
    ELSE IF "exp" \in DOMAIN tok.payload /\ Expired(tok.payload["exp"], now)
    THEN [ok |-> FALSE, err |-> "ExpiredSignatureError", payload |-> <<>>]
    ELSE [ok |-> TRUE, err |-> "", payload |-> tok.payload]

\* a caller issues a token for claims {sub, email}
issue_token ==
    /\ \E sub \in Subs, email \in Emails, expires_delta \in 0..MaxTtl :
          LET data == ("sub" :> sub) @@ ("email" :> email)
          IN  /\ token' = create_access_token(data, expires_delta, clock)
              /\ issued' = [at |-> clock, expires_delta |-> expires_delta,
                            data |-> data]
    /\ UNCHANGED <<clock, result>>
    /\ UNCHANGED storeVars
    /\ UNCHANGED apiVars
    /\ UNCHANGED sideVars

\* a caller verifies the token issued last
verify_token ==
    /\ token # NoToken
    /\ result' = [at |-> clock, call |-> issued] @@ decode_access_token(token, clock)
    /\ UNCHANGED <<clock, token, issued>>
    /\ UNCHANGED storeVars
    /\ UNCHANGED apiVars
    /\ UNCHANGED sideVars

\* time passes
tick(maxClock) ==
    /\ clock < maxClock
    /\ clock' = clock + 1
    /\ UNCHANGED <<token, issued, result>>
    /\ UNCHANGED storeVars
    /\ UNCHANGED apiVars
    /\ UNCHANGED sideVars

NextToken ==
    \/ issue_token
    \/ verify_token
    \/ tick(MaxClock)

SpecToken == Init /\ [][NextToken]_vars

(***************************************************************************)
(* Password hashing of app/utils/auth.py: CryptContext with the scheme      *)
(* bcrypt_sha256.  The scheme hashes the password with SHA-256, encodes the *)
(* digest in base64 and hands the 44 bytes to bcrypt, which reads at most   *)
(* 72 bytes of what it is given.  SHA-256 and bcrypt are taken as ideal:    *)
(* a digest stands for the bytes it was computed from.                      *)
(***************************************************************************)
\* the number of bytes bcrypt reads of its input
BcryptMax == 72

\* the length of a SHA-256 digest in base64
DigestLen == 44

Repeat(c, n) == [i \in 1..n |-> c]

\* passwords: short ones, and long ones that agree on their first 72 bytes
Passwords ==
    {<<>>, <<"p">>, <<"q">>, <<"p", "q">>,
     Repeat("a", BcryptMax),
     Repeat("a", BcryptMax) \o <<"x">>,
     Repeat("a", BcryptMax) \o <<"y">>}

Salts == {"salt1", "salt2", "salt3"}

\* bcrypt of a byte string under a salt
Bcrypt(salt, bytes) ==
    [salt |-> salt,
     digest |-> IF Len(bytes) > BcryptMax THEN SubSeq(bytes, 1, BcryptMax) ELSE bytes]

\* variant: schemes=["bcrypt"], the password itself is handed to bcrypt
Prehash_Raw(password) == password

\* what bcrypt_sha256 hands to bcrypt: the base64 digest of the password
Prehash(password) == [i \in 1..DigestLen |-> IF i = 1 THEN password ELSE "="]

\* pwd_context.hash(password), with the salt the context draws
hash_password(password, salt) == Bcrypt(salt, Prehash(password))

\* pwd_context.verify(plain_password, hashed_password)
verify_password(plain_password, hashed_password) ==
    Bcrypt(hashed_password.salt, Prehash(plain_password)) = hashed_password

hash_a_password ==
    /\ \E password \in Passwords, salt \in Salts :
          pwd' = [plain |-> password, hash |-> hash_password(password, salt),
                  tried |-> <<>>, ok |-> FALSE, done |-> 1]
    /\ UNCHANGED <<users, http, me, reply>>
    /\ UNCHANGED authVars
    /\ UNCHANGED sideVars
    /\ UNCHANGED storeVars

verify_a_password ==
    /\ pwd.done > 0
    /\ \E plain_password \in Passwords :
          pwd' = [pwd EXCEPT !.tried = plain_password,
                             !.ok = verify_password(plain_password, pwd.hash),
                             !.done = 2]
    /\ UNCHANGED <<users, http, me, reply>>
    /\ UNCHANGED authVars
    /\ UNCHANGED sideVars
    /\ UNCHANGED storeVars

NextPassword ==
    \/ hash_a_password
    \/ verify_a_password

SpecPassword == Init /\ [][NextPassword]_vars

(***************************************************************************)
(* The users and the auth router (app/routers/auth.py): register, login     *)
(* and GET /me, whose user is resolved by get_current_user                  *)
(* (app/utils/dependencies.py).                                             *)
(***************************************************************************)
\* request bodies of register and login
RegEmails == Emails \cup {"bob@example.com"}
Usernames == {"alice", "bob"}
RegPasswords == {<<"p">>, <<"q">>}

\* the salt pwd_context draws for a registration
RegSalts == {"salt1"}

\* uuid.uuid4 of User.id, as str(user.id)
UserIds == Subs

\* what FastAPI answers when a handler lets an exception out
ServerError == [status |-> 500, detail |-> "Internal Server Error"]

\* timedelta(minutes=settings.ACCESS_TOKEN_EXPIRE_MINUTES), in ticks
access_token_expires == ACCESS_TOKEN_EXPIRE_MINUTES * 60 * Resolution

\* the token of a response of register or login
TokenFor(user, now) ==
    create_access_token(("sub" :> user.id) @@ ("email" :> user.email),
                        access_token_expires, now)

register ==
    /\ \E email \in RegEmails, username \in Usernames, password \in RegPasswords :
          LET existing == {u \in users : u.email = email \/ u.username = username}
              request == [op |-> "register", email |-> email, username |-> username,
                          password |-> password, before |-> users]
          IN  IF Cardinality(existing) > 1
              THEN \* scalar_one_or_none raises MultipleResultsFound
                   /\ http' = request @@ ServerError @@ [token |-> NoToken, user |-> ""]
                   /\ UNCHANGED users
              ELSE IF existing # {}
              THEN /\ http' = request @@
                              [status |-> 400,
                               detail |-> "Email or username already registered",
                               token |-> NoToken, user |-> ""]
                   /\ UNCHANGED users
              ELSE \E id \in UserIds \ {u.id : u \in users}, salt \in RegSalts :
                      LET db_user == [id |-> id, email |-> email, username |-> username,
                                      password_hash |-> hash_password(password, salt)]
                      IN  /\ users' = users \cup {db_user}
                          /\ http' = request @@
                                     [status |-> 201, detail |-> "",
                                      token |-> TokenFor(db_user, clock), user |-> id]
    /\ UNCHANGED <<me, pwd, reply>>
    /\ UNCHANGED authVars
    /\ UNCHANGED sideVars
    /\ UNCHANGED storeVars

\* variant: the password is not looked at
login_response_AnyPassword(rows, email, password, now) ==
    LET found == {u \in rows : u.email = email}
    IN  IF found = {}
        THEN [status |-> 401, detail |-> "Incorrect email or password",
              token |-> NoToken, user |-> ""]
        ELSE LET user == CHOOSE u \in found : TRUE
             IN  [status |-> 200, detail |-> "", token |-> TokenFor(user, now),
                  user |-> user.id]

\* login: what the handler answers to the form (username = email, password)
login_response(rows, email, password, now) ==
    LET found == {u \in rows : u.email = email}
    IN  IF Cardinality(found) > 1
        THEN ServerError @@ [token |-> NoToken, user |-> ""]
        ELSE IF found = {} \/ \E u \in found : ~verify_password(password, u.password_hash)
        THEN [status |-> 401, detail |-> "Incorrect email or password",
              token |-> NoToken, user |-> ""]
        ELSE LET user == CHOOSE u \in found : TRUE
             IN  [status |-> 200, detail |-> "", token |-> TokenFor(user, now),
                  user |-> user.id]

login ==
    /\ \E email \in RegEmails, password \in RegPasswords :
          http' = [op |-> "login", email |-> email, username |-> "",
                   password |-> password, before |-> users]
                  @@ login_response(users, email, password, clock)
    /\ UNCHANGED <<users, me, pwd, reply>>
    /\ UNCHANGED authVars
    /\ UNCHANGED sideVars
    /\ UNCHANGED storeVars

\* the names the module app/utils/dependencies.py binds (its imports and
\* its definitions); any other name its code reads raises NameError
DependenciesNames ==
    {"annotations", "uuid", "Depends", "HTTPException", "status",
     "OAuth2PasswordBearer", "AsyncSession", "get_db", "oauth2_scheme",
     "get_current_user"}

\* strings uuid.UUID accepts
IsUUID(sub) == sub \in UserIds

credentials_exception ==
    [status |-> 401, detail |-> "Could not validate credentials",
     headers |-> ("WWW-Authenticate" :> "Bearer"), user |-> ""]

\* an exception that leaves get_current_user uncaught
Uncaught == ServerError @@ [headers |-> <<>>, user |-> ""]

\* the lookup of lines 37-45: the User whose id and email are the token's
ResolveUser(rows, user_id, email) ==
    LET found == {u \in rows : u.id = user_id /\ u.email = email}
    IN  IF found = {} THEN credentials_exception
        ELSE IF Cardinality(found) > 1 THEN Uncaught
        ELSE [status |-> 200, detail |-> "", headers |-> <<>>,
              user |-> (CHOOSE u \in found : TRUE).id]

\* variant: every name is imported and the user is looked up by id alone
get_current_user_IdOnly(tok, now, rows) ==
    LET d == decode_access_token(tok, now)
    IN  IF ~d.ok \/ "sub" \notin DOMAIN d.payload \/ "email" \notin DOMAIN d.payload
        THEN credentials_exception
        ELSE IF ~IsUUID(d.payload["sub"]) THEN credentials_exception
        ELSE IF \E u \in rows : u.id = d.payload["sub"]
        THEN [status |-> 200, detail |-> "", headers |-> <<>>, user |-> d.payload["sub"]]
        ELSE credentials_exception

\* variant: every name is imported and an unknown user is told apart
get_current_user_Telling(tok, now, rows) ==
    LET d == decode_access_token(tok, now)
    IN  IF ~d.ok \/ "sub" \notin DOMAIN d.payload \/ "email" \notin DOMAIN d.payload
        THEN credentials_exception
        ELSE IF ~IsUUID(d.payload["sub"]) THEN credentials_exception
        ELSE LET r == ResolveUser(rows, d.payload["sub"], d.payload["email"])
             IN  IF r.status = 200 THEN r
                 ELSE [credentials_exception EXCEPT !.status = 404,
                                                    !.detail = "User not found"]

\* get_current_user(token, db) at time now
get_current_user(tok, now, rows) ==
    IF "decode_access_token" \notin DependenciesNames
    THEN \* line 27: NameError, caught by `except Exception` of line 33
         credentials_exception
    ELSE LET d == decode_access_token(tok, now)
         IN  IF ~d.ok THEN credentials_exception
             ELSE IF "sub" \notin DOMAIN d.payload \/ "email" \notin DOMAIN d.payload
             THEN credentials_exception
             ELSE IF ~IsUUID(d.payload["sub"]) THEN credentials_exception
             ELSE IF {"select", "User"} \subseteq DependenciesNames
             THEN ResolveUser(rows, d.payload["sub"], d.payload["email"])
             ELSE \* line 38: NameError outside the try
                  Uncaught

\* the secret of a caller who does not know the server's
AttackerKey == "attacker secret"

\* a string that is not a JWT
Malformed == [payload |-> <<>>, key |-> "", alg |-> ""]

\* claims a caller may put in a token
CraftData ==
    {("sub" :> sub) @@ ("email" :> email) :
        sub \in UserIds \cup {"not-a-uuid"}, email \in RegEmails}
    \cup {("email" :> email) : email \in Emails}
    \cup {("sub" :> sub) : sub \in {"id1"}}

\* the claims login puts in a token
LoginData ==
    {("sub" :> sub) @@ ("email" :> email) : sub \in UserIds, email \in RegEmails}

\* tokens signed with the server's secret at time 0: with the default ttl,
\* and with a ttl of one tick
Crafted ==
    {create_access_token(data, 0, 0) : data \in CraftData}
    \cup {create_access_token(data, 1, 0) : data \in LoginData}

\* tokens of the same claims signed with another secret
Forged ==
    {[create_access_token(data, 0, 0) EXCEPT !.key = AttackerKey] : data \in LoginData}

\* the bearer tokens a request may carry
Bearers ==
    Crafted \cup Forged \cup {Malformed}
    \cup (IF http.token # NoToken THEN {http.token} ELSE {})

\* GET /me: read_me returns the user get_current_user resolved
read_me ==
    /\ \E tok \in Bearers :
          me' = [token |-> tok, before |-> users,
                 decoded |-> decode_access_token(tok, clock)]
                @@ get_current_user(tok, clock, users)
    /\ UNCHANGED <<users, http, pwd, reply>>
    /\ UNCHANGED authVars
    /\ UNCHANGED sideVars
    /\ UNCHANGED storeVars

NextAuth ==
    \/ register
    \/ login
    \/ read_me
    \/ tick(MaxWait)

SpecAuth == Init /\ [][NextAuth]_vars

(***************************************************************************)
(* SpecCrud: the routers alone, with request bodies that supply every       *)
(* field the handlers assign, while time passes between the requests.       *)
(***************************************************************************)
\* the sequences that hold every row of the set once
Orderings(rows) ==
    {seq \in [1..Cardinality(rows) -> rows] :
        \A i, j \in 1..Cardinality(rows) : i # j => seq[i] # seq[j]}

\* variant: the rows come in the order of their ids
OrderByIndex_ById(rows) ==
    {seq \in Orderings(rows) :
        \A i, j \in 1..Cardinality(rows) : i < j => seq[i].id <= seq[j].id}

\* .order_by(Chapter.order_index): rows with equal keys come in any order
OrderByIndex(rows) ==
    {seq \in Orderings(rows) :
        \A i, j \in 1..Cardinality(rows) :
            i < j => seq[i].order_index <= seq[j].order_index}

\* GET /api/chapters/course/{course_id}
get_chapters_by_course_id(course_id) ==
    /\ ApiOpen
    /\ IF ~Has(db.courses, course_id)
       THEN reply' = Replied("get_chapters_by_course_id", course_id, 404,
                             "Course not found")
       ELSE \E chapters \in OrderByIndex({ch \in db.chapters :
                                             ch.course_id = course_id}) :
               reply' = Returned("get_chapters_by_course_id", course_id, 200,
                                 chapters)
    /\ UNCHANGED <<db, users, http, me, pwd>>
    /\ UNCHANGED pipelineVars
    /\ UNCHANGED authVars
    /\ UNCHANGED sideVars

\* an options dict whose two entries are both flagged correct
TwoCorrect == JDict(("A" :> Opt(sX, TRUE)) @@ ("B" :> Opt(sY, TRUE)))

\* the store of these runs holds one row less than MaxApiRows
CrudRows == MaxApiRows - 1

\* path parameters, and parent ids of request bodies
CrudIds == {1, 2}

CrudCourseUpdates == {<<>>, ("title" :> sB)}

CrudChapterUpdates ==
    {<<>>, ("order_index" :> 1), ("order_index" :> 0), ("course_id" :> 2)}

CrudQuestionUpdates ==
    {<<>>, ("options" :> TwoCorrect),
     ("question_text" :> sB) @@ ("correct_answer" :> sY), ("chapter_id" :> 2)}

NextCrud ==
    \/ RowCount(db) < CrudRows /\ create_course
    \/ RowCount(db) < CrudRows /\ \E course_id \in CrudIds : create_chapter_in(course_id)
    \/ RowCount(db) < CrudRows /\ \E chapter_id \in CrudIds : create_question_in(chapter_id, sA, JDict(<<>>), sX)
    \/ \E course_id \in CrudIds, course_data \in CrudCourseUpdates :
          update_course_by(course_id, course_data)
    \/ \E chapter_id \in CrudIds, chapter_data \in CrudChapterUpdates :
          update_chapter_by(chapter_id, chapter_data)
    \/ \E question_id \in CrudIds, question_data \in CrudQuestionUpdates :
          update_question_by(question_id, question_data)
    \/ \E course_id \in CrudIds : get_chapters_by_course_id(course_id)
    \/ tick(MaxStamp)

SpecCrud == Init /\ [][NextCrud]_vars

(***************************************************************************)
(* SpecGate: users register and call the handlers of the course, chapter    *)
(* and question routers over HTTP, where every handler declares             *)
(* current_user: User = Depends(get_current_user).                          *)
(***************************************************************************)
\* oauth2_scheme, for a request without an `Authorization: Bearer` header
not_authenticated ==
    [status |-> 401, detail |-> "Not authenticated",
     headers |-> ("WWW-Authenticate" :> "Bearer"), user |-> ""]

\* variant: the handler does not declare the dependency
Depends_Skipped(bearer, tok, handler) == handler

\* a handler behind Depends(get_current_user): the dependency is resolved
\* first and its HTTPException is the response; the handler body runs only
\* when it returned a user.  bearer: the request carries a bearer token
Depends(bearer, tok, handler) ==
    LET current_user == IF bearer THEN get_current_user(tok, clock, users)
                        ELSE not_authenticated
    IN  IF current_user.status = 200
        THEN handler
        ELSE /\ me' = [token |-> tok, before |-> users,
                       decoded |-> decode_access_token(tok, clock)] @@ current_user
             /\ UNCHANGED <<db, users, http, pwd, reply>>
             /\ UNCHANGED pipelineVars
             /\ UNCHANGED authVars
             /\ UNCHANGED sideVars

\* the bearer tokens of these requests: not a JWT, signed with another
\* secret, or the token the last register answered
GateBearers ==
    {Malformed} \cup Forged \cup (IF http.token # NoToken THEN {http.token} ELSE {})

\* requests without a token, and with each bearer token
Requests == {<<FALSE, NoToken>>} \cup {<<TRUE, tok>> : tok \in GateBearers}

NextGate ==
    \/ register
    \/ \E rq \in Requests : Depends(rq[1], rq[2], create_course)
    \/ \E rq \in Requests : Depends(rq[1], rq[2], create_chapter)
    \/ \E rq \in Requests : Depends(rq[1], rq[2], create_question)
    \/ \E rq \in Requests : Depends(rq[1], rq[2], get_question_by_id)
    \/ \E rq \in Requests : Depends(rq[1], rq[2], update_course)
    \/ \E rq \in Requests : Depends(rq[1], rq[2], update_chapter)
    \/ \E rq \in Requests : Depends(rq[1], rq[2], update_question)
    \/ \E rq \in Requests, course_id \in ApiIds :
          Depends(rq[1], rq[2], delete_course(course_id))
    \/ \E rq \in Requests : Depends(rq[1], rq[2], delete_chapter)
    \/ \E rq \in Requests : Depends(rq[1], rq[2], delete_question)
    \/ \E rq \in Requests, course_id \in ApiIds :
          Depends(rq[1], rq[2], get_chapters_by_course_id(course_id))

SpecGate == Init /\ [][NextGate]_vars

(***************************************************************************)
(* ask_gemini of app/ai/clients/gemini_client.py: the retry loop around     *)
(* model.generate_content and the fallback method names.  What the model    *)
(* object answers is drawn anew at every call.                              *)
(***************************************************************************)
\* max_attempts = 3
max_attempts == 3

\* messages of the exceptions the client library raises
Msg504 == <<"5", "0", "4", " ", "D", "e", "a", "d", "l", "i", "n", "e", " ", "E", "x", "c", "e", "e", "d", "e", "d">>
MsgInternal == <<"5", "0", "0", " ", "I", "n", "t", "e", "r", "n", "a", "l", " ", "e", "r", "r", "o", "r">>
MsgUnavailable == <<"S", "e", "r", "v", "i", "c", "e", " ", "U", "N", "A", "V", "A", "I", "L", "A", "B", "L", "E">>
MsgBadRequest == <<"4", "0", "0", " ", "B", "a", "d", " ", "R", "e", "q", "u", "e", "s", "t">>
MsgQuota == <<"q", "u", "o", "t", "a", " ", "e", "x", "c", "e", "e", "d", "e", "d">>

Messages == {Msg504, MsgInternal, MsgUnavailable, MsgBadRequest, MsgQuota}

\* str.lower(), for the letters the messages use
LowerChar(c) ==
    CASE c = "A" -> "a" [] c = "B" -> "b" [] c = "D" -> "d" [] c = "E" -> "e"
      [] c = "I" -> "i" [] c = "L" -> "l" [] c = "N" -> "n" [] c = "R" -> "r"
      [] c = "S" -> "s" [] c = "U" -> "u" [] c = "V" -> "v" [] OTHER -> c

Lower(msg) == [i \in 1..Len(msg) |-> LowerChar(msg[i])]

\* needle in haystack
In(needle, haystack) ==
    \E i \in 1..(Len(haystack) - Len(needle) + 1) :
        SubSeq(haystack, i, i + Len(needle) - 1) = needle

\* the test of lines 128-131 and 176-179 on msg = str(exc)
Retryable(msg) ==
    \/ In(<<"5", "0", "4">>, msg)
    \/ In(<<"d", "e", "a", "d", "l", "i", "n", "e", " ", "e", "x", "c", "e", "e", "d", "e", "d">>, Lower(msg))
    \/ In(<<"i", "n", "t", "e", "r", "n", "a", "l">>, Lower(msg))
    \/ In(<<"u", "n", "a", "v", "a", "i", "l", "a", "b", "l", "e">>, Lower(msg))

\* variant: every error is retried while attempts are left
ShouldRetry_Any(attempt, msg) == attempt < max_attempts

\* (attempt < max_attempts) and the message has a retryable marker
ShouldRetry(attempt, msg) == attempt < max_attempts /\ Retryable(msg)

\* variant: the backoff starts at two seconds
Backoff_Late(attempt) == 2 ^ attempt

\* time.sleep(2 ** (attempt - 1))
Backoff(attempt) == 2 ^ (attempt - 1)

\* for method_name in (...): the fallback method names, in order
FallbackNames == <<"generate", "generate_text", "predict", "respond", "create">>

\* the fallback methods a model object may have
ModelMethods == {{}, {"generate"}, {"generate_text", "respond"}}

Sleep(g, attempt) == Append(g.slept, [after |-> attempt, secs |-> Backoff(attempt)])

otherVars ==
    <<db, tx, input, run, pc, fileIdx, recIdx, cur, log, snap, inserted,
      clock, token, issued, result, users, http, me, pwd, reply, peer>>

\* ask_gemini(prompt) is called: _get_available_model returns a model, or
\* raises RuntimeError when it finds none
ask_gemini ==
    /\ gem.pc \in {"idle", "returned", "raised"}
    /\ \/ \E methods \in ModelMethods :
             gem' = [NoGem EXCEPT !.pc = "generate", !.methods = methods, !.attempt = 1]
       \/ gem' = [NoGem EXCEPT !.pc = "raised"]
    /\ UNCHANGED otherVars

\* lines 113-136: one call of model.generate_content and what follows it
generate_content ==
    /\ gem.pc = "generate"
    /\ LET called == [gem EXCEPT !.calls = @ + 1]
       IN  \/ \* the response has a text, or a candidate with a text part
              gem' = [called EXCEPT !.pc = "returned"]
           \/ \* the response has neither: no return, no exception
              gem' = [called EXCEPT !.pc = "fallback", !.idx = 1]
           \/ \E msg \in Messages :
                 LET raised == [called EXCEPT !.failed = TRUE, !.last_exc = msg,
                                              !.fatal = IF Retryable(msg) THEN @
                                                        ELSE gem.attempt]
                 IN  IF ShouldRetry(gem.attempt, msg)
                     THEN gem' = [raised EXCEPT !.slept = Sleep(gem, gem.attempt),
                                                !.attempt = @ + 1]
                     ELSE gem' = [raised EXCEPT !.pc = "fallback", !.idx = 1]
    /\ UNCHANGED otherVars

\* lines 139-170: one turn of the loop over the fallback method names
fallback_method ==
    /\ gem.pc = "fallback"
    /\ gem.idx <= Len(FallbackNames)
    /\ IF FallbackNames[gem.idx] \notin gem.methods
       THEN gem' = [gem EXCEPT !.idx = @ + 1]
       ELSE \/ \* the method returns: some string of the response is returned
               gem' = [gem EXCEPT !.pc = "returned"]
            \/ \E msg \in Messages :
                  gem' = [gem EXCEPT !.failed = TRUE, !.last_exc = msg, !.idx = @ + 1]
    /\ UNCHANGED otherVars

\* lines 172-184 and the end of the loop body
end_of_attempt ==
    /\ gem.pc = "fallback"
    /\ gem.idx > Len(FallbackNames)
    /\ IF gem.failed /\ gem.attempt < max_attempts
       THEN IF ShouldRetry(gem.attempt, gem.last_exc)
            THEN gem' = [gem EXCEPT !.pc = "generate", !.idx = 0,
                                    !.slept = Sleep(gem, gem.attempt),
                                    !.attempt = @ + 1]
            ELSE \* break, and the RuntimeError of line 186
                 gem' = [gem EXCEPT !.pc = "raised", !.idx = 0]
       ELSE IF gem.attempt < max_attempts
            THEN \* nothing was raised: the next attempt starts at once
                 gem' = [gem EXCEPT !.pc = "generate", !.idx = 0, !.attempt = @ + 1]
            ELSE \* the loop is exhausted: the RuntimeError of line 186
                 gem' = [gem EXCEPT !.pc = "raised", !.idx = 0]
    /\ UNCHANGED otherVars

NextGemini ==
    \/ ask_gemini
    \/ generate_content
    \/ fallback_method
    \/ end_of_attempt

SpecGemini == Init /\ [][NextGemini]_vars

\* a call that has started is run to its end
FairSpecGemini ==
    /\ SpecGemini
    /\ WF_vars(generate_content)
    /\ WF_vars(fallback_method)
    /\ WF_vars(end_of_attempt)

(***************************************************************************)
(* Vocabulary of the properties.                                            *)
(***************************************************************************)
\* the shape the ingestion input is documented to have: an object with a
\* string course_name, a string question_text and a list options whose
\* members are objects with a string text and a boolean is_correct
WellFormed(item) ==
    /\ item.t = "dict"
    /\ {"course_name", "question_text", "options"} \subseteq DOMAIN item.d
    /\ item.d["course_name"].t = "str"
    /\ item.d["question_text"].t = "str"
    /\ item.d["options"].t = "list"
    /\ \A i \in 1..Len(item.d["options"].l) :
          LET opt == item.d["options"].l[i]
          IN  /\ opt.t = "dict"
              /\ {"text", "is_correct"} \subseteq DOMAIN opt.d
              /\ opt.d["text"].t = "str"
              /\ opt.d["is_correct"].t = "bool"

\* the errors raised by a statement of the store
StoreErrors ==
    {"Error processing: DBAPIError", "Error processing: MultipleResultsFound"}

\* process_file has returned from the single file of the directory
FileReturned == Len(input) = 1 /\ fileIdx = 2 /\ pc = "main"

\* the Questions of store s that carry the text, in the default chapter of
\* a Course with the title
StoredFor(s, title, text) ==
    {q \in s.questions :
        /\ q.question_text = text
        /\ \E ch \in s.chapters :
              /\ ch.id = q.chapter_id
              /\ ch.title = DefaultChapterTitle
              /\ \E c \in s.courses : c.id = ch.course_id /\ c.title = title}

(***************************************************************************)
(* C1.  Running the pipeline a second time over the same input leaves the   *)
(* committed rows as the first run left them, and the second run inserts    *)
(* no Question, no Course and no Chapter.                                   *)
(***************************************************************************)
C1_SecondRunInsertsNothing == run = "again" => (db = snap /\ tx = EmptyStore)

(***************************************************************************)
(* C2.  Once process_file has finished a file, the Question of every        *)
(* record that was inserted (added and flushed) in that file is persisted,  *)
(* whatever failed afterwards.                                              *)
(***************************************************************************)
C2_InsertedSurviveFailure == FileReturned => inserted \subseteq db.questions

(***************************************************************************)
(* C3.  After process_file has finished a file that holds a list (and no    *)
(* statement of the store raised), every well-formed record whose           *)
(* question_text was not stored before has exactly one committed Question,  *)
(* in the chapter "Imported" of the Course titled with its course_name.     *)
(***************************************************************************)
C3_NewRecordsCommitted ==
    (FileReturned /\ input[1].kind = "list" /\ log.msg \notin StoreErrors) =>
        \A i \in 1..Len(input[1].items) :
            LET item == input[1].items[i]
            IN  (/\ WellFormed(item)
                 /\ ~\E q \in snap.questions :
                        q.question_text = Strip(item.d["question_text"].s))
                => Cardinality(StoredFor(db, Strip(item.d["course_name"].s),
                                         Strip(item.d["question_text"].s))) = 1

\* process_file takes a record in this step: the record
Taking == pc = "rec" /\ recIdx <= Len(input'[fileIdx].items)

Taken == input'[fileIdx].items[recIdx]

\* the record is passed over: nothing written, the loop is at the next record
PassedOver(msg) ==
    /\ db' = db
    /\ tx' = tx
    /\ pc' = "rec"
    /\ fileIdx' = fileIdx
    /\ recIdx' = recIdx + 1
    /\ log'.msg = msg

\* the exception ends the file: nothing of it is committed, main is at the
\* next file
FileAbandoned ==
    /\ db' = db
    /\ tx' = EmptyStore
    /\ pc' = "main"
    /\ fileIdx' = fileIdx + 1

(***************************************************************************)
(* C4.  A record that is not of the documented shape is skipped: the step   *)
(* that takes it writes nothing, prints the validation error and leaves     *)
(* the loop at the next record of the same file, the transaction open.      *)
(***************************************************************************)
C4_MalformedSkipped ==
    [][(Taking /\ ~WellFormed(Taken)) => PassedOver("Skipping item: validation error")]_vars

\* a malformed first record was skipped and the second record went on to
\* the inserts
C4_Witness ==
    /\ pc = "course"
    /\ recIdx = 2
    /\ ~WellFormed(input[1].items[1])
    /\ tx = EmptyStore

(***************************************************************************)
(* C5.  After process_file has returned, a Question of the file is stored   *)
(* with all the options of its record or not at all; when the insert        *)
(* sequence of a record ended in an exception, no Question of that record   *)
(* is stored.                                                               *)
(***************************************************************************)
C5_QuestionWithOptionsOrNothing ==
    (FileReturned /\ input[1].kind = "list") =>
        /\ \A q \in db.questions \ snap.questions :
              \E i \in 1..Len(input[1].items) :
                  /\ WellFormed(input[1].items[i])
                  /\ q.question_text = Strip(input[1].items[i].d["question_text"].s)
                  /\ q.options = input[1].items[i].d["options"]
        /\ log.msg \in {"Error processing: DBAPIError",
                        "Error processing: AttributeError"} =>
              \A q \in db.questions \ snap.questions :
                  q.question_text #
                      Strip(input[1].items[log.idx].d["question_text"].s)

\* the flush of a record's Question failed and process_file has returned
C5_Witness ==
    /\ FileReturned
    /\ log.msg = "Error processing: DBAPIError"
    /\ ~\E q \in db.questions :
          q.question_text = Strip(input[1].items[log.idx].d["question_text"].s)

SameStripped(item) ==
    {q \in db.questions \cup tx.questions :
        q.question_text = Strip(item.d["question_text"].s)}

C7_BadFileSkipped ==
    [][(pc = "main" /\ fileIdx <= Len(input') /\ input'[fileIdx].kind # "list")
       => (db' = db /\ tx' = tx /\ pc' = "main" /\ fileIdx' = fileIdx + 1)]_vars

\* after a file that was not a list, the next file is being processed, and
\* the rows committed before are still there
C7_Witness ==
    /\ pc = "rec"
    /\ fileIdx = 2
    /\ input[1].kind \in {"unreadable", "notlist"}
    /\ db = snap
    /\ db.questions # {}

(***************************************************************************)
(* C8.  The correct_answer of an ingested Question is the text of the       *)
(* first option whose is_correct is true and, when no option is flagged,    *)
(* the text of the first option.                                            *)
(***************************************************************************)
Flagged(opts) == {i \in 1..Len(opts) : opts[i].d["is_correct"].b}

ClaimedAnswer(opts) ==
    IF Flagged(opts) # {}
    THEN opts[CHOOSE i \in Flagged(opts) : \A j \in Flagged(opts) : i <= j].d["text"].s
    ELSE opts[1].d["text"].s

C8_FirstFlaggedOrFirst ==
    \A q \in inserted :
        q.options.l # <<>> => q.correct_answer = ClaimedAnswer(q.options.l)

(***************************************************************************)
(* C9.  get_or_create_course returns a Course with exactly the title        *)
(* course_name and creates nothing when one exists; it creates exactly one  *)
(* Course with that title, and returns it, when none exists.                *)
(***************************************************************************)
C9_GetOrCreateCourse ==
    [][pc = "course" =>
          LET seen == db.courses \cup tx.courses
              found == {c \in seen : c.title = cur.course_name}
          IN  IF found # {}
              THEN /\ db' = db
                   /\ tx' = tx
                   /\ pc' = "chapter"
                   /\ cur'.course \in {c.id : c \in found}
              ELSE /\ db' = db
                   /\ pc' = "chapter"
                   /\ \E c \in tx'.courses \ seen :
                         /\ tx'.courses = tx.courses \cup {c}
                         /\ c.title = cur.course_name
                         /\ c.id \notin {d.id : d \in seen}
                         /\ cur'.course = c.id]_vars

(***************************************************************************)
(* C10, as claimed.  For expires_delta t > 0 the token issued at time i     *)
(* decodes to the sub and email it was issued for while the time is before  *)
(* i + t, and fails to decode once the time is past i + t.                  *)
(***************************************************************************)
Verified == result # NoResult /\ result.call.expires_delta > 0

Deadline == result.call.at + result.call.expires_delta

GivesClaims ==
    /\ result.ok
    /\ result.payload["sub"] = result.call.data["sub"]
    /\ result.payload["email"] = result.call.data["email"]

C15_OnlyThePasswordVerifies ==
    pwd.done = 2 => (pwd.ok <=> pwd.tried = pwd.plain)

\* a password longer than bcrypt's 72 bytes was refused against the hash of
\* another that has the same first 72 bytes
C15_Witness ==
    /\ pwd.done = 2
    /\ Len(pwd.plain) > BcryptMax
    /\ Len(pwd.tried) > BcryptMax
    /\ pwd.tried # pwd.plain
    /\ ~pwd.ok

(***************************************************************************)
(* Vocabulary of the properties of the auth router.                         *)
(***************************************************************************)
\* get_current_user was called
Asked == me.status # 0

\* the claims of the token get_current_user was called with
Claimed(name) == IF name \in DOMAIN me.token.payload THEN me.token.payload[name] ELSE ""

\* the users that were stored when get_current_user was called and have the
\* id the token claims
Claimants == {u \in me.before : u.id = Claimed("sub")}

(***************************************************************************)
(* C11.  A token signed with a secret that is not the server's never        *)
(* verifies: decode_access_token fails for it and get_current_user resolves *)
(* no user from it, whatever its claims.                                    *)
(***************************************************************************)
C11_ForgedNeverVerifies ==
    (Asked /\ me.token.key # JWT_SECRET_KEY) =>
        /\ ~me.decoded.ok
        /\ me.status # 200
        /\ me.user = ""

\* a token that carries the id and email of a stored user, signed with the
\* attacker's secret, was refused
C11_Witness ==
    /\ Asked
    /\ me.token.key = AttackerKey
    /\ \E u \in Claimants : u.email = Claimed("email")
    /\ me.status = 401
    /\ me.decoded.err = "JWTError"

(***************************************************************************)
(* C12.  get_current_user returns a user only if a stored User has the      *)
(* token's sub as id and the token's email as email; a token whose sub is   *)
(* the id of a user with another email is answered 401.                     *)
(***************************************************************************)
C12_IdAndEmailMustMatch ==
    Asked =>
        /\ me.status = 200 =>
              /\ me.decoded.ok
              /\ me.user = Claimed("sub")
              /\ \E u \in Claimants : u.email = Claimed("email")
        /\ (me.decoded.ok /\ Claimants # {}
              /\ \A u \in Claimants : u.email # Claimed("email")) => me.status = 401

\* a token that decodes, with the id of a stored user and the email of
\* another, was answered 401
C12_Witness ==
    /\ Asked
    /\ me.decoded.ok
    /\ Claimants # {}
    /\ \A u \in Claimants : u.email # Claimed("email")
    /\ \E u \in me.before : u.email = Claimed("email")
    /\ me.status = 401

(***************************************************************************)
(* C13.  Every failure of get_current_user is the same response: 401,       *)
(* 'Could not validate credentials', WWW-Authenticate: Bearer.              *)
(***************************************************************************)
C13_OneFailureResponse ==
    (Asked /\ me.status # 200) =>
        /\ me.status = 401
        /\ me.detail = "Could not validate credentials"
        /\ me.headers = ("WWW-Authenticate" :> "Bearer")

\* an expired token with the id and email of a stored user was refused
C13_Witness ==
    /\ Asked
    /\ me.decoded.err = "ExpiredSignatureError"
    /\ \E u \in Claimants : u.email = Claimed("email")
    /\ me.status = 401
    /\ me.headers = ("WWW-Authenticate" :> "Bearer")

(***************************************************************************)
(* C14.  GET /me with the unexpired token a login returned answers with     *)
(* the profile of the user who logged in.                                   *)
(***************************************************************************)
C14_MeAfterLogin ==
    (Asked /\ http.op = "login" /\ http.status = 200
        /\ me.token = http.token /\ me.decoded.ok) =>
            (me.status = 200 /\ me.user = http.user)

(***************************************************************************)
(* C16.  login answers 401 'Incorrect email or password' both for an        *)
(* unknown email and for a wrong password, and returns a token only when    *)
(* the hash of the user with that email verifies the password.              *)
(***************************************************************************)
C16_LoginUniformFailure ==
    http.op = "login" =>
        LET owners == {u \in http.before :
                          /\ u.email = http.email
                          /\ verify_password(http.password, u.password_hash)}
        IN  IF owners # {}
            THEN /\ http.status = 200
                 /\ \E u \in owners :
                       /\ http.user = u.id
                       /\ http.token.key = JWT_SECRET_KEY
                       /\ http.token.payload["sub"] = u.id
                       /\ http.token.payload["email"] = u.email
            ELSE /\ http.status = 401
                 /\ http.detail = "Incorrect email or password"
                 /\ http.token = NoToken

\* a login with the email of a stored user and a password that is not the
\* user's was refused
C16_Witness ==
    /\ http.op = "login"
    /\ \E u \in http.before : u.email = http.email
    /\ http.status = 401
    /\ http.token = NoToken

(***************************************************************************)
(* C17.  A register call whose email or username is already registered is   *)
(* answered 400 'Email or username already registered' and leaves the       *)
(* users unchanged, also when the email is one user's and the username      *)
(* another's.                                                               *)
(***************************************************************************)
C17_DuplicateRejected ==
    (http.op = "register"
        /\ \E u \in http.before : u.email = http.email \/ u.username = http.username) =>
            /\ http.status = 400
            /\ http.detail = "Email or username already registered"
            /\ users = http.before

(***************************************************************************)
(* C18.  When delete_course answers 204 for a course, the Course, its       *)
(* Chapters and their Questions are gone from the store, and                *)
(* get_question_by_id answers 404 for each of its former questions.         *)
(***************************************************************************)
ChaptersIn(store, course_id) == {ch \in store.chapters : ch.course_id = course_id}

QuestionsIn(store, course_id) ==
    {q \in store.questions :
        \E ch \in ChaptersIn(store, course_id) : q.chapter_id = ch.id}

C18_DeleteCourseCascades ==
    [][\A course_id \in ApiIds :
          (delete_course(course_id) /\ reply'.status = 204) =>
              /\ ~Has(db'.courses, course_id)
              /\ \A ch \in ChaptersIn(db, course_id) : ~Has(db'.chapters, ch.id)
              /\ \A q \in QuestionsIn(db, course_id) :
                    /\ ~Has(db'.questions, q.id)
                    /\ get_question_by_id_response(db', q.id).status = 404]_vars

(***************************************************************************)
(* C19.  Every Chapter's course_id is the id of a stored Course and every   *)
(* Question's chapter_id is the id of a stored Chapter, in the committed    *)
(* rows and in what the ingestion's session sees.                           *)
(***************************************************************************)
Referential(store) ==
    /\ \A ch \in store.chapters : Has(store.courses, ch.course_id)
    /\ \A q \in store.questions : Has(store.chapters, q.chapter_id)

C19_ParentsExist == Referential(db) /\ Referential(View)

\* delete_course answered 204 for a course that has a chapter with a question
C19_Witness ==
    /\ reply.op = "delete_course"
    /\ reply.status = 204
    /\ QuestionsIn(db, reply.id) # {}
    /\ Cardinality(db.courses) > 1

(***************************************************************************)
(* C20.  No two stored Courses have the same title.                         *)
(***************************************************************************)
C20_UniqueTitles ==
    \A c1, c2 \in db.courses : c1.title = c2.title => c1 = c2

(***************************************************************************)
(* Vocabulary of the properties of ask_gemini.                              *)
(***************************************************************************)
Running == gem.pc \in {"generate", "fallback"}

Ended == gem.pc \in {"returned", "raised"}

(***************************************************************************)
(* C28.  ask_gemini calls generate_content at most 3 times, sleeps only     *)
(* between two attempts, 1 second after the first attempt and 2 seconds     *)
(* after the second, and every call that has started ends, by returning or  *)
(* by raising RuntimeError.                                                 *)
(***************************************************************************)
BoundedBackoff ==
    /\ gem.calls <= 3
    /\ Len(gem.slept) <= 2
    /\ \A i \in DOMAIN gem.slept :
          /\ gem.slept[i].after \in {1, 2}
          /\ gem.slept[i].after < gem.attempt
          /\ gem.slept[i].secs = (IF gem.slept[i].after = 1 THEN 1 ELSE 2)
          /\ \A j \in DOMAIN gem.slept : i < j => gem.slept[i].after < gem.slept[j].after

C29_SecondOfFileSeesFirst ==
    [][(pc = "log" /\ pc' # "log")
       => (/\ pc' = "rec"
           /\ fileIdx' = fileIdx
           /\ Cardinality({q \in Merge(db', tx').questions :
                              q.question_text = cur.question_text}) = 1)]_vars

(***************************************************************************)
(* C25.  delete_chapter and delete_question on an existing id answer 204    *)
(* and the row is gone from the store afterwards, so that a get by that id  *)
(* answers 404; on an id that does not exist they answer 404 and change     *)
(* nothing.                                                                 *)
(***************************************************************************)
C25_DeleteRemovesRow ==
    [][/\ delete_chapter =>
             IF Has(db.chapters, reply'.id)
             THEN reply'.status = 204 /\ ~Has(db'.chapters, reply'.id)
             ELSE reply'.status = 404 /\ db' = db
       /\ delete_question =>
             IF Has(db.questions, reply'.id)
             THEN /\ reply'.status = 204
                  /\ ~Has(db'.questions, reply'.id)
                  /\ get_question_by_id_response(db', reply'.id).status = 404
             ELSE reply'.status = 404 /\ db' = db]_vars

(***************************************************************************)
(* C21.  Every stored Question has at most one option flagged is_correct.   *)
(***************************************************************************)
IsFlagged(opt) ==
    /\ opt.t = "dict"
    /\ "is_correct" \in DOMAIN opt.d
    /\ opt.d["is_correct"].t = "bool"
    /\ opt.d["is_correct"].b

\* the entries of an options value (a list or a dict) that are flagged
FlaggedCorrect(options) ==
    IF options.t = "list"
    THEN {i \in 1..Len(options.l) : IsFlagged(options.l[i])}
    ELSE {k \in DOMAIN options.d : IsFlagged(options.d[k])}

C21_AtMostOneCorrect ==
    \A q \in db.questions : Cardinality(FlaggedCorrect(q.options)) <= 1

(***************************************************************************)
(* C22.  create_chapter with a course_id that is not stored and             *)
(* create_question with a chapter_id that is not stored answer 404 and      *)
(* insert nothing; update_chapter and update_question of a stored row whose *)
(* body names a parent that is not stored answer 404 and leave the store,   *)
(* and so every field of the row, as it was.                                *)
(***************************************************************************)
MissingParentAnswers404 ==
    \A id \in ApiIds :
        /\ ~Has(db.courses, id) =>
              /\ create_chapter_response(db, id).status = 404
              /\ create_chapter_response(db, id).detail = "Course not found"
        /\ ~Has(db.chapters, id) =>
              /\ create_question_response(db, id).status = 404
              /\ create_question_response(db, id).detail = "Chapter not found"

MissingParentWritesNothing ==
    /\ \A id \in ApiIds :
          (create_chapter_in(id) /\ ~Has(db.courses, id)) => db' = db
    /\ \A id \in ApiIds :
          (create_question_in(id, sA, JDict(<<>>), sX) /\ ~Has(db.chapters, id))
          => db' = db
    /\ \A id \in CrudIds, chapter_data \in CrudChapterUpdates :
          (/\ update_chapter_by(id, chapter_data)
           /\ Has(db.chapters, id)
           /\ "course_id" \in DOMAIN chapter_data
           /\ ~Has(db.courses, chapter_data["course_id"]))
          => (/\ reply'.status = 404
              /\ reply'.detail = "Course not found"
              /\ db' = db)
    /\ \A id \in CrudIds, question_data \in CrudQuestionUpdates :
          (/\ update_question_by(id, question_data)
           /\ Has(db.questions, id)
           /\ "chapter_id" \in DOMAIN question_data
           /\ ~Has(db.chapters, question_data["chapter_id"]))
          => (/\ reply'.status = 404
              /\ reply'.detail = "Chapter not found"
              /\ db' = db)

C22_MissingParent404 ==
    [](MissingParentAnswers404) /\ [][MissingParentWritesNothing]_vars

\* update_chapter has answered 404 for a stored chapter, whose body named a
\* course that is not stored
C22_Witness ==
    /\ reply.op = "update_chapter"
    /\ reply.status = 404
    /\ reply.detail = "Course not found"
    /\ Has(db.chapters, reply.id)
    /\ ~Has(db.courses, 2)

(***************************************************************************)
(* C24.  When update_course, update_chapter or update_question answers 200, *)
(* every field of the row that the body supplied has the body's value,      *)
(* every other field (id and created_at among them) has the value it had,   *)
(* no other row has changed, and the response carries the row as it is now. *)
(***************************************************************************)
\* the row with this id changed from the fields of data and nothing else did
OnlySupplied(table, id, data) ==
    LET old == Row(db[table], id)
        new == Row(db'[table], id)
    IN  /\ Has(db'[table], id)
        /\ DOMAIN new = DOMAIN old
        /\ \A f \in DOMAIN old :
              new[f] = IF f \in DOMAIN data THEN data[f] ELSE old[f]
        /\ db'[table] \ {new} = db[table] \ {old}
        /\ \A other \in DOMAIN db : other # table => db'[other] = db[other]
        /\ reply'.body = <<new>>

C26_ChaptersListedInOrder ==
    [][\A course_id \in CrudIds :
          get_chapters_by_course_id(course_id) =>
              IF ~Has(db.courses, course_id)
              THEN reply'.status = 404 /\ reply'.detail = "Course not found"
              ELSE LET chapters == {ch \in db.chapters : ch.course_id = course_id}
                       n == Cardinality(chapters)
                   IN  /\ reply'.status = 200
                       /\ DOMAIN reply'.body = 1..n
                       /\ {reply'.body[i] : i \in 1..n} = chapters
                       /\ \A i, j \in 1..n :
                             i < j => reply'.body[i].order_index
                                          <= reply'.body[j].order_index]_vars

\* a listing of two chapters, where the chapter created later comes first
C26_Witness ==
    /\ reply.op = "get_chapters_by_course_id"
    /\ reply.status = 200
    /\ Len(reply.body) = 2
    /\ reply.body[1].id > reply.body[2].id
    /\ reply.body[1].order_index < reply.body[2].order_index

(***************************************************************************)
(* C23.  A handler of the course, chapter and question routers reads or     *)
(* changes the store (so that the store changes, or a response of the       *)
(* handler is given) only for a bearer token that get_current_user resolves *)
(* to a stored user; a request whose token is missing or does not resolve   *)
(* is answered 401 and neither the store nor the handlers' last response    *)
(* changes.                                                                 *)
(***************************************************************************)
Resolves(tok) ==
    /\ get_current_user(tok, clock, users).status = 200
    /\ \E u \in users : u.id = get_current_user(tok, clock, users).user

Racing(title) ==
    /\ \E c \in tx.courses : c.title = title
    /\ \E c \in peer.tx.courses : c.title = title

C27_RaceLeavesTwoCourses ==
    Racing(sC) ~> (Cardinality({c \in db.courses : c.title = sC}) = 2)

====
